---- MODULE Spec2Model ----
(***************************************************************************)
(* Model of scripts/debug/scrap-french-nap.py: the reconciliation of the   *)
(* French NAP catalog with the Transitland directory.                      *)
(*                                                                         *)
(* JSON values are tagged records.  A Python str is a sequence of          *)
(* one-character strings, so that lower(), replace(), strip(), endswith()  *)
(* int() and the ordering of identifiers are computed character by         *)
(* character.  A Python dict is a sequence of [k, v] entries in insertion  *)
(* order, which is also the order json.dump writes them in.                *)
(***************************************************************************)
EXTENDS Integers, Sequences, FiniteSets, TLC

(***************************************************************************)
(* Bounds of the model.                                                    *)
(***************************************************************************)
MaxSlugLen == 7
MaxCatalog == 2
MaxIncoming == 2
MaxDbRows == 2

(***************************************************************************)
(* JSON values.                                                            *)
(***************************************************************************)
JNone == [t |-> "none"]
JStr(s) == [t |-> "str", s |-> s]
JInt(n) == [t |-> "int", n |-> n]
JList(items) == [t |-> "list", items |-> items]
JDict(kv) == [t |-> "dict", kv |-> kv]
KV(k, v) == [k |-> k, v |-> v]

IsDict(x) == x.t = "dict"
IsList(x) == x.t = "list"
IsStr(x) == x.t = "str"

HasKey(d, key) == \E i \in 1..Len(d.kv) : d.kv[i].k = key

\* d.get(key): the value of the entry with that key, None when there is none
Get(d, key) ==
  IF HasKey(d, key)
    THEN d.kv[CHOOSE i \in 1..Len(d.kv) : d.kv[i].k = key].v
    ELSE JNone

\* d[key] = v on a dict: an existing key keeps its position, a new key goes last
Put(d, key, v) ==
  IF HasKey(d, key)
    THEN JDict([i \in 1..Len(d.kv) |->
                 IF d.kv[i].k = key THEN KV(key, v) ELSE d.kv[i]])
    ELSE JDict(Append(d.kv, KV(key, v)))

RECURSIVE UpdateFrom(_, _, _)
UpdateFrom(d, kv, i) ==
  IF i > Len(kv) THEN d ELSE UpdateFrom(Put(d, kv[i].k, kv[i].v), kv, i + 1)

\* d.update(other)
Update(d, other) == UpdateFrom(d, other.kv, 1)

\* Python truthiness of a JSON value
Truthy(x) ==
  CASE x.t = "none" -> FALSE
    [] x.t = "str" -> x.s # <<>>
    [] x.t = "int" -> x.n # 0
    [] x.t = "list" -> x.items # <<>>
    [] x.t = "dict" -> x.kv # <<>>

(***************************************************************************)
(* Characters and strings.                                                 *)
(***************************************************************************)
UpperChars == <<"A", "B", "C", "D", "E", "F", "G", "H", "I", "J", "K", "L", "M",
                "N", "O", "P", "Q", "R", "S", "T", "U", "V", "W", "X", "Y", "Z">>
LowerChars == <<"a", "b", "c", "d", "e", "f", "g", "h", "i", "j", "k", "l", "m",
                "n", "o", "p", "q", "r", "s", "t", "u", "v", "w", "x", "y", "z">>
DigitChars == <<"0", "1", "2", "3", "4", "5", "6", "7", "8", "9">>

IndexIn(c, chars) ==
  IF \E i \in 1..Len(chars) : chars[i] = c
    THEN CHOOSE i \in 1..Len(chars) : chars[i] = c
    ELSE 0

LowerChar(c) ==
  IF IndexIn(c, UpperChars) > 0 THEN LowerChars[IndexIn(c, UpperChars)] ELSE c

\* str.lower()
Lower(s) == [i \in 1..Len(s) |-> LowerChar(s[i])]

\* str.replace(old, new) for a one-character old
ReplaceChar(s, old, new) == [i \in 1..Len(s) |-> IF s[i] = old THEN new ELSE s[i]]

\* '~~' in s
HasDoubleTilde(s) == \E i \in 1..(Len(s) - 1) : s[i] = "~" /\ s[i + 1] = "~"

\* s.replace('~~', '~'): one pass, left to right, over non-overlapping matches
RECURSIVE ReplaceDoubleTilde(_)
ReplaceDoubleTilde(s) ==
  IF Len(s) < 2 THEN s
  ELSE IF s[1] = "~" /\ s[2] = "~"
    THEN <<"~">> \o ReplaceDoubleTilde(SubSeq(s, 3, Len(s)))
    ELSE <<s[1]>> \o ReplaceDoubleTilde(Tail(s))

\* while '~~' in s: s = s.replace('~~', '~')
RECURSIVE CollapseTildes(_)
CollapseTildes(s) ==
  IF HasDoubleTilde(s) THEN CollapseTildes(ReplaceDoubleTilde(s)) ELSE s

RECURSIVE LStrip(_, _)
LStrip(s, c) == IF s # <<>> /\ Head(s) = c THEN LStrip(Tail(s), c) ELSE s

RECURSIVE RStrip(_, _)
RStrip(s, c) ==
  IF s # <<>> /\ s[Len(s)] = c THEN RStrip(SubSeq(s, 1, Len(s) - 1), c) ELSE s

\* s.strip(c)
Strip(s, c) == RStrip(LStrip(s, c), c)

\* s.endswith(suffix)
EndsWith(s, suffix) ==
  /\ Len(suffix) <= Len(s)
  /\ SubSeq(s, Len(s) - Len(suffix) + 1, Len(s)) = suffix

(***************************************************************************)
(* The feed identifier of a slug (create_feed_record, first part).         *)
(***************************************************************************)
RegionalSuffixes == {<<"~", "f", "r">>,
                     <<"~", "f", "r", "a", "n", "c", "e">>,
                     <<"~", "r", "e", "u", "n", "i", "o", "n">>}

HasRegionalSuffix(name) == \E suffix \in RegionalSuffixes : EndsWith(name, suffix)

\* the name component before the suffix test
CleanSlug(slug) ==
  Strip(CollapseTildes(ReplaceChar(ReplaceChar(Lower(slug), "-", "~"), "_", "~")), "~")

\* a variant that appends the suffix whatever the name ends with
NameComponent_AlwaysSuffix(slug) == CleanSlug(slug) \o <<"~", "f", "r">>

NameComponent(slug) ==
  IF ~HasRegionalSuffix(CleanSlug(slug))
    THEN CleanSlug(slug) \o <<"~", "f", "r">>
    ELSE CleanSlug(slug)

FeedId(slug) == <<"f", "-">> \o NameComponent(slug)

(***************************************************************************)
(* String literals of the program.                                         *)
(***************************************************************************)
S_unknown == <<"u", "n", "k", "n", "o", "w", "n">>
S_gtfs == <<"g", "t", "f", "s">>
S_GTFS == <<"G", "T", "F", "S">>
S_RT == <<"-", "R", "T">>
S_odc_odbl == <<"o", "d", "c", "-", "o", "d", "b", "l">>
S_lov2 == <<"l", "o", "v", "2">>
S_fr_lo == <<"f", "r", "-", "l", "o">>
S_licence_ouverte == <<"l", "i", "c", "e", "n", "c", "e", "-", "o", "u", "v", "e", "r", "t", "e">>
S_other_pd == <<"o", "t", "h", "e", "r", "-", "p", "d">>
S_mobility_licence == <<"m", "o", "b", "i", "l", "i", "t", "y", "-", "l", "i", "c", "e", "n", "c", "e">>
S_notspecified == <<"n", "o", "t", "s", "p", "e", "c", "i", "f", "i", "e", "d">>
S_ODbL == <<"O", "D", "b", "L", "-", "1", ".", "0">>
S_LO == <<"L", "O", "-", "2", ".", "0">>
S_CC0 == <<"C", "C", "0", "-", "1", ".", "0">>
S_yes == <<"y", "e", "s">>
S_no == <<"n", "o">>
S_osm == <<"Â", "©", " ", "O", "p", "e", "n", "S", "t", "r", "e", "e", "t", "M", "a", "p",
           " ", "c", "o", "n", "t", "r", "i", "b", "u", "t", "o", "r", "s">>
S_lo_text == <<"L", "i", "c", "e", "n", "c", "e", " ", "O", "u", "v", "e", "r", "t", "e", " ",
               "/", " ", "O", "p", "e", "n", " ", "L", "i", "c", "e", "n", "s", "e">>

(***************************************************************************)
(* clean_empty_values                                                      *)
(***************************************************************************)
\* v in (None, "", [], {})
IsEmptyItem(v) ==
  \/ v.t = "none"
  \/ v.t = "str" /\ v.s = <<>>
  \/ v.t = "list" /\ v.items = <<>>
  \/ v.t = "dict" /\ v.kv = <<>>

\* v in (None, "", [], {}, "unknown")
IsEmptyValue(v) == IsEmptyItem(v) \/ (v.t = "str" /\ v.s = S_unknown)

RECURSIVE clean_empty_values(_)
clean_empty_values(obj) ==
  IF obj.t = "dict" THEN
    LET kept == SelectSeq(obj.kv, LAMBDA e : ~IsEmptyValue(e.v))
    IN JDict([i \in 1..Len(kept) |-> KV(kept[i].k, clean_empty_values(kept[i].v))])
  ELSE IF obj.t = "list" THEN
    LET kept == SelectSeq(obj.items, LAMBDA e : ~IsEmptyItem(e))
    IN JList([i \in 1..Len(kept) |-> clean_empty_values(kept[i])])
  ELSE obj

(***************************************************************************)
(* create_feed_record                                                      *)
(***************************************************************************)
UpperChar(c) ==
  IF IndexIn(c, LowerChars) > 0 THEN UpperChars[IndexIn(c, LowerChars)] ELSE c

\* str.upper()
Upper(s) == [i \in 1..Len(s) |-> UpperChar(s[i])]

\* d.get(key, default): the default only when the key is missing
GetDefault(d, key, default) == IF HasKey(d, key) THEN Get(d, key) ELSE default

\* a variant that compares the format as it is written
IsStaticGtfs_CaseSensitive(r) ==
  LET format == GetDefault(r, "format", JStr(<<>>)).s
  IN format = S_GTFS /\ ~EndsWith(format, S_RT)

\* r.get("format", "").upper() == "GTFS" and not ...upper().endswith("-RT")
IsStaticGtfs(r) ==
  LET format == Upper(GetDefault(r, "format", JStr(<<>>)).s)
  IN format = S_GTFS /\ ~EndsWith(format, S_RT)

\* next((r for r in dataset.get("resources", []) if ...), None)
StaticGtfsResource(dataset) ==
  LET resources == GetDefault(dataset, "resources", JList(<<>>)).items
      found == SelectSeq(resources, IsStaticGtfs)
  IN IF found = <<>> THEN JNone ELSE Head(found)

\* license_map: None stands for the code that has no SPDX identifier
license_map ==
  JDict(<<KV(S_odc_odbl, JStr(S_ODbL)),
          KV(S_lov2, JStr(S_LO)),
          KV(S_fr_lo, JStr(S_LO)),
          KV(S_licence_ouverte, JStr(S_LO)),
          KV(S_other_pd, JStr(S_CC0)),
          KV(S_mobility_licence, JStr(S_LO)),
          KV(S_notspecified, JNone)>>)

AllYes(attribution, share_alike) ==
  JDict(<<KV("attribution_text", attribution),
          KV("redistribution_allowed", JStr(S_yes)),
          KV("commercial_use_allowed", JStr(S_yes)),
          KV("create_derived_product", JStr(S_yes)),
          KV("share_alike_optional", share_alike)>>)

\* the properties set for a licence code that has an SPDX identifier
LicenseProperties(license_key) ==
  IF license_key = S_odc_odbl THEN
    JDict(<<KV("share_alike_optional", JStr(S_no)),
            KV("attribution_text", JStr(S_osm)),
            KV("redistribution_allowed", JStr(S_yes)),
            KV("commercial_use_allowed", JStr(S_yes)),
            KV("create_derived_product", JStr(S_yes))>>)
  ELSE IF license_key \in {S_lov2, S_fr_lo, S_licence_ouverte, S_mobility_licence} THEN
    AllYes(JStr(S_lo_text), JStr(S_yes))
  ELSE IF license_key = S_other_pd THEN
    AllYes(JStr(<<>>), JStr(S_yes))
  ELSE JDict(<<>>)

\* a variant that sets no attribution text
UnknownLicense_NoAttribution(dataset) ==
  JDict(<<KV("redistribution_allowed", JStr(S_unknown)),
          KV("commercial_use_allowed", JStr(S_unknown)),
          KV("create_derived_product", JStr(S_unknown)),
          KV("share_alike_optional", JStr(S_unknown))>>)

\* the defaults of an unknown or unspecified licence
UnknownLicense(dataset) ==
  JDict(<<KV("attribution_text", GetDefault(dataset, "title", JStr(<<>>))),
          KV("redistribution_allowed", JStr(S_unknown)),
          KV("commercial_use_allowed", JStr(S_unknown)),
          KV("create_derived_product", JStr(S_unknown)),
          KV("share_alike_optional", JStr(S_unknown))>>)

\* a variant that looks the licence code up as it is typed
NewLicense_AsTyped(dataset) ==
  LET l0 == IF Truthy(Get(dataset, "page_url"))
              THEN JDict(<<KV("url", Get(dataset, "page_url"))>>)
              ELSE JDict(<<>>)
      license_key == Get(dataset, "licence").s
      spdx_id == Get(license_map, license_key)
  IN IF ~Truthy(Get(dataset, "licence")) THEN l0
     ELSE IF HasKey(license_map, license_key) THEN
       IF Truthy(spdx_id)
         THEN Update(Put(l0, "spdx_identifier", spdx_id), LicenseProperties(license_key))
         ELSE Update(l0, UnknownLicense(dataset))
     ELSE Update(l0, UnknownLicense(dataset))

\* feed_record["license"] before a prior record is looked at
NewLicense(dataset) ==
  LET l0 == IF Truthy(Get(dataset, "page_url"))
              THEN JDict(<<KV("url", Get(dataset, "page_url"))>>)
              ELSE JDict(<<>>)
      license_key == Strip(Lower(Get(dataset, "licence").s), " ")
      spdx_id == Get(license_map, license_key)
  IN IF ~Truthy(Get(dataset, "licence")) THEN l0
     ELSE IF HasKey(license_map, license_key) THEN
       IF Truthy(spdx_id)
         THEN Update(Put(l0, "spdx_identifier", spdx_id), LicenseProperties(license_key))
         ELSE Update(l0, UnknownLicense(dataset))
     ELSE Update(l0, UnknownLicense(dataset))

\* the record before a prior record is looked at
BaseRecord(dataset, gtfs_resource) ==
  JDict(<<KV("id", JStr(FeedId(Get(dataset, "slug").s))),
          KV("spec", JStr(S_gtfs)),
          KV("urls", JDict(<<KV("static_current", Get(gtfs_resource, "url"))>>)),
          KV("license", NewLicense(dataset)),
          KV("name", Get(dataset, "title")),
          KV("tags", JDict(<<KV("fr_nap_dataset_id", Get(dataset, "id"))>>))>>)

\* a variant that takes no feed_versions from the prior record
PreserveFrom_NoVersions(feed_record, existing_feed) ==
  LET r2 == IF Truthy(Get(existing_feed, "feed_state"))
              THEN Put(feed_record, "feed_state", Get(existing_feed, "feed_state"))
              ELSE feed_record
      r3 == IF ~Truthy(Get(r2, "name")) /\ Truthy(Get(existing_feed, "name"))
              THEN Put(r2, "name", Get(existing_feed, "name"))
              ELSE r2
      existing_license == GetDefault(existing_feed, "license", JDict(<<>>))
      r4 == IF /\ Truthy(Get(existing_license, "spdx_identifier"))
               /\ ~Truthy(Get(Get(r3, "license"), "spdx_identifier"))
              THEN Put(r3, "license", existing_license)
              ELSE r3
      r5 == IF Truthy(Get(existing_feed, "languages"))
              THEN Put(r4, "languages", Get(existing_feed, "languages"))
              ELSE r4
  IN r5

\* a variant that takes the prior license whenever it has an spdx_identifier
PreserveFrom_PriorLicenseAlways(feed_record, existing_feed) ==
  LET r1 == IF Truthy(Get(existing_feed, "feed_versions"))
              THEN Put(feed_record, "feed_versions", Get(existing_feed, "feed_versions"))
              ELSE feed_record
      r2 == IF Truthy(Get(existing_feed, "feed_state"))
              THEN Put(r1, "feed_state", Get(existing_feed, "feed_state"))
              ELSE r1
      r3 == IF ~Truthy(Get(r2, "name")) /\ Truthy(Get(existing_feed, "name"))
              THEN Put(r2, "name", Get(existing_feed, "name"))
              ELSE r2
      existing_license == GetDefault(existing_feed, "license", JDict(<<>>))
      r4 == IF Truthy(Get(existing_license, "spdx_identifier"))
              THEN Put(r3, "license", existing_license)
              ELSE r3
      r5 == IF Truthy(Get(existing_feed, "languages"))
              THEN Put(r4, "languages", Get(existing_feed, "languages"))
              ELSE r4
  IN r5

\* the block under "if existing_feed:"
PreserveFrom(feed_record, existing_feed) ==
  LET r1 == IF Truthy(Get(existing_feed, "feed_versions"))
              THEN Put(feed_record, "feed_versions", Get(existing_feed, "feed_versions"))
              ELSE feed_record
      r2 == IF Truthy(Get(existing_feed, "feed_state"))
              THEN Put(r1, "feed_state", Get(existing_feed, "feed_state"))
              ELSE r1
      r3 == IF ~Truthy(Get(r2, "name")) /\ Truthy(Get(existing_feed, "name"))
              THEN Put(r2, "name", Get(existing_feed, "name"))
              ELSE r2
      existing_license == GetDefault(existing_feed, "license", JDict(<<>>))
      r4 == IF /\ Truthy(Get(existing_license, "spdx_identifier"))
               /\ ~Truthy(Get(Get(r3, "license"), "spdx_identifier"))
              THEN Put(r3, "license", existing_license)
              ELSE r3
      r5 == IF Truthy(Get(existing_feed, "languages"))
              THEN Put(r4, "languages", Get(existing_feed, "languages"))
              ELSE r4
  IN r5

\* a variant that lays the prior tags over the new ones
MergeTags_PriorWins(feed_record, existing_feed) ==
  IF Truthy(existing_feed) /\ Truthy(Get(existing_feed, "tags"))
    THEN Put(feed_record, "tags", Update(Get(feed_record, "tags"), Get(existing_feed, "tags")))
    ELSE feed_record

\* the block under "Preserve existing tags if any"
MergeTags(feed_record, existing_feed) ==
  IF Truthy(existing_feed) /\ Truthy(Get(existing_feed, "tags"))
    THEN Put(feed_record, "tags", Update(Get(existing_feed, "tags"), Get(feed_record, "tags")))
    ELSE feed_record

\* create_feed_record(dataset, existing_feeds): None or the cleaned record
create_feed_record(dataset, existing_feeds) ==
  LET gtfs_resource == StaticGtfsResource(dataset)
      feed_record == BaseRecord(dataset, gtfs_resource)
      existing_feed == Get(existing_feeds, Get(feed_record, "id").s)
      preserved == IF Truthy(existing_feed)
                     THEN PreserveFrom(feed_record, existing_feed)
                     ELSE feed_record
  IN IF ~Truthy(gtfs_resource) THEN JNone
     ELSE clean_empty_values(MergeTags(preserved, existing_feed))

(***************************************************************************)
(* write_dmfr_file                                                         *)
(*                                                                         *)
(* The file at dmfr_path is [kind |-> "missing"], [kind |-> "invalid"]     *)
(* (its text is not JSON) or [kind |-> "json", value |-> v].  head is the  *)
(* answer of requests.head for each URL: [kind |-> "error"] (the request   *)
(* raises) or [kind |-> "response", status, content_length].               *)
(***************************************************************************)
Missing == [kind |-> "missing"]
Invalid == [kind |-> "invalid"]
Json(v) == [kind |-> "json", value |-> v]

IsDigits(s) == s # <<>> /\ \A i \in 1..Len(s) : IndexIn(s[i], DigitChars) > 0

RECURSIVE DigitsValue(_)
DigitsValue(s) ==
  IF s = <<>> THEN 0
  ELSE 10 * DigitsValue(SubSeq(s, 1, Len(s) - 1)) + (IndexIn(s[Len(s)], DigitChars) - 1)

\* int(s) of a str: surrounding blanks are allowed, anything else raises ValueError
IntRaises(s) == ~IsDigits(Strip(s, " "))
IntValue(s) == DigitsValue(Strip(s, " "))

\* the prior record has a feed_version with a sha1
HasPriorSha1(existing_feed_data) ==
  /\ Truthy(existing_feed_data)
  /\ Truthy(GetDefault(existing_feed_data, "feed_version", JDict(<<>>)))
  /\ Truthy(Get(GetDefault(existing_feed_data, "feed_version", JDict(<<>>)), "sha1"))

\* requests.head(current_url) is called for this feed
IsProbed(feed, existing_feeds) ==
  /\ HasPriorSha1(Get(existing_feeds, Get(feed, "id").s))
  /\ HasKey(feed, "urls")
  /\ Truthy(Get(Get(feed, "urls"), "static_current"))

\* the exception raised inside the try block for this feed, "none" when there is none
TryException(feed, existing_feeds, head) ==
  LET current_url == Get(Get(feed, "urls"), "static_current")
      response == head[current_url.s]
  IN IF ~HasKey(feed, "urls") THEN "KeyError"
     ELSE IF ~Truthy(current_url) THEN "none"
     ELSE IF response.kind = "error" THEN "RequestException"
     ELSE IF response.status # 200 THEN "none"
     ELSE IF Truthy(response.content_length) /\ IntRaises(response.content_length.s)
       THEN "ValueError"
     ELSE "none"

\* except Exception: every exception of the try block is caught
IsCaught(exception) == exception \in {"KeyError", "RequestException", "ValueError"}

\* content_length and int(content_length) == feed_version.get('size_bytes')
SizeMatches(content_length, size_bytes) ==
  /\ Truthy(content_length)
  /\ size_bytes.t = "int"
  /\ IntValue(content_length.s) = size_bytes.n

\* a variant that compares the sizes whatever the status of the answer
Decision_IgnoreStatus(feed, existing_feeds, head) ==
  LET existing_feed_data == Get(existing_feeds, Get(feed, "id").s)
      feed_version == GetDefault(existing_feed_data, "feed_version", JDict(<<>>))
      current_url == Get(Get(feed, "urls"), "static_current")
      response == head[current_url.s]
      exception == TryException(feed, existing_feeds, head)
  IN IF ~Truthy(existing_feed_data) THEN "keep"
     ELSE IF ~(Truthy(feed_version) /\ Truthy(Get(feed_version, "sha1"))) THEN "keep"
     ELSE IF exception # "none" THEN (IF IsCaught(exception) THEN "keep" ELSE "raise")
     ELSE IF ~Truthy(current_url) THEN "keep"
     ELSE IF SizeMatches(response.content_length, Get(feed_version, "size_bytes")) THEN "skip"
     ELSE "keep"

\* the body of the loop over new_feeds for one feed: "keep" (appended to
\* feeds_to_write), "skip" (appended to skipped_feeds) or "raise"
Decision(feed, existing_feeds, head) ==
  LET existing_feed_data == Get(existing_feeds, Get(feed, "id").s)
      feed_version == GetDefault(existing_feed_data, "feed_version", JDict(<<>>))
      current_url == Get(Get(feed, "urls"), "static_current")
      response == head[current_url.s]
      exception == TryException(feed, existing_feeds, head)
  IN IF ~Truthy(existing_feed_data) THEN "keep"
     ELSE IF ~(Truthy(feed_version) /\ Truthy(Get(feed_version, "sha1"))) THEN "keep"
     ELSE IF exception # "none" THEN (IF IsCaught(exception) THEN "keep" ELSE "raise")
     ELSE IF ~Truthy(current_url) THEN "keep"
     ELSE IF response.status # 200 THEN "keep"
     ELSE IF SizeMatches(response.content_length, Get(feed_version, "size_bytes")) THEN "skip"
     ELSE "keep"

\* reading the existing file raises an exception that is not caught
ReadRaises(dmfr) ==
  /\ dmfr.kind = "json"
  /\ \/ ~IsDict(dmfr.value)
     \/ LET feeds == GetDefault(dmfr.value, "feeds", JList(<<>>))
        IN CASE feeds.t = "none" -> TRUE
             [] feeds.t = "int" -> TRUE
             [] feeds.t = "str" -> feeds.s # <<>>
             [] feeds.t = "dict" -> feeds.kv # <<>>
             [] feeds.t = "list" ->
                  \E i \in 1..Len(feeds.items) :
                    \/ ~IsDict(feeds.items[i])
                    \/ Get(feeds.items[i], "id").t \in {"list", "dict"}

\* the feeds read from the existing file
ExistingFeeds(dmfr) ==
  IF dmfr.kind = "json" /\ ~ReadRaises(dmfr)
    THEN LET feeds == GetDefault(dmfr.value, "feeds", JList(<<>>))
         IN IF feeds.t = "list" THEN feeds.items ELSE <<>>
    ELSE <<>>

\* a variant that forgets the preserved feeds
CombineFeeds_DropPreserved(preserved_feeds, feeds_to_write) == feeds_to_write

\* preserved_feeds + feeds_to_write
CombineFeeds(preserved_feeds, feeds_to_write) == preserved_feeds \o feeds_to_write

\* a variant that keeps every entry of the existing file
MergedFeeds_KeepAll(dmfr, feeds_to_write) ==
  IF dmfr.kind = "json"
    THEN CombineFeeds(ExistingFeeds(dmfr), feeds_to_write)
    ELSE feeds_to_write

\* the feeds handed to the writer
MergedFeeds(dmfr, feeds_to_write) ==
  LET new_feed_ids == {Get(feeds_to_write[i], "id") : i \in 1..Len(feeds_to_write)}
      preserved_feeds == SelectSeq(ExistingFeeds(dmfr),
                                   LAMBDA feed : Get(feed, "id") \notin new_feed_ids)
  IN IF dmfr.kind = "json"
       THEN CombineFeeds(preserved_feeds, feeds_to_write)
       ELSE feeds_to_write

\* the outcome of one call: the file afterwards and what the call did.  The
\* open(dmfr_path, 'w') of the last step is taken to succeed.  raised is "no",
\* "probing" (an exception left the loop over new_feeds) or "reading" (an
\* exception left the reading of the existing file).
write_dmfr_file(new_feeds, existing_feeds, head, dmfr) ==
  LET decision == [i \in 1..Len(new_feeds) |-> Decision(new_feeds[i], existing_feeds, head)]
      stopped == \E i \in 1..Len(new_feeds) : decision[i] = "raise"
      done == IF stopped
                THEN (CHOOSE i \in 1..Len(new_feeds) :
                        /\ decision[i] = "raise"
                        /\ \A j \in 1..(i - 1) : decision[j] # "raise") - 1
                ELSE Len(new_feeds)
      At(d) == {i \in 1..done : decision[i] = d}
      feeds_to_write == SelectSeq([i \in 1..done |-> IF i \in At("keep") THEN new_feeds[i] ELSE JNone],
                                  LAMBDA feed : feed # JNone)
      skipped_feeds == SelectSeq([i \in 1..done |-> IF i \in At("skip") THEN new_feeds[i] ELSE JNone],
                                 LAMBDA feed : feed # JNone)
      probed == SelectSeq(SubSeq(new_feeds, 1, IF stopped THEN done + 1 ELSE done),
                          LAMBDA feed : IsProbed(feed, existing_feeds))
      feeds == MergedFeeds(dmfr, feeds_to_write)
      cleaned_feeds == [i \in 1..Len(feeds) |-> clean_empty_values(feeds[i])]
      raised == IF stopped THEN "probing" ELSE IF ReadRaises(dmfr) THEN "reading" ELSE "no"
  IN [dmfr |-> IF raised # "no" THEN dmfr ELSE Json(JDict(<<KV("feeds", JList(cleaned_feeds))>>)),
      feeds_to_write |-> feeds_to_write,
      skipped_feeds |-> skipped_feeds,
      probed |-> [i \in 1..Len(probed) |-> Get(Get(probed[i], "urls"), "static_current").s],
      raised |-> raised]

(***************************************************************************)
(* State.                                                                  *)
(***************************************************************************)
VARIABLES
  pc,              \* where main is
  dmfr,            \* the file feeds/transport.data.gouv.fr.dmfr.json
  dmfr_before,     \* that file as the last call of write_dmfr_file found it
  datasets,        \* what fetch_datasets returned
  existing_feeds,  \* the prior mapping, from get_existing_french_feeds
  new_feeds,       \* the records handed to write_dmfr_file
  head,            \* the answers of requests.head, by URL
  last,            \* what the last call of write_dmfr_file did
  calls,           \* the calls of write_dmfr_file so far
  dmfr_first,      \* the file after the first call
  db_rows,         \* the rows of the local version store, newest first
  duplicates,      \* check_feed_versions: the unchanged feed ids
  new_versions,    \* check_feed_versions: the new or changed feed ids
  slug,            \* a catalog slug
  feed_id,         \* the identifier computed for slug
  catalog_entry,   \* the catalog entry handed to create_feed_record
  given,           \* the entry and the prior mapping as they were before the calls
  records,         \* what the calls of create_feed_record returned, in order
  events           \* what main has done so far, in order

vars == <<pc, dmfr, dmfr_before, datasets, existing_feeds, new_feeds, head, last,
          calls, dmfr_first, db_rows, duplicates, new_versions, slug, feed_id,
          catalog_entry, given, records, events>>

NoCall == [feeds_to_write |-> <<>>, skipped_feeds |-> <<>>, probed |-> <<>>, raised |-> "no"]
CallOutcome(r) == [feeds_to_write |-> r.feeds_to_write, skipped_feeds |-> r.skipped_feeds,
                   probed |-> r.probed, raised |-> r.raised]

(***************************************************************************)
(* Inputs: URLs, hashes, records, files, prior mappings, probe answers.    *)
(***************************************************************************)
U0 == <<"u", "0">>
U1 == <<"u", "1">>
U2 == <<"u", "2">>
H1 == <<"h", "1">>
H2 == <<"h", "2">>

Id_a == <<"f", "-", "a", "~", "f", "r">>
Id_b == <<"f", "-", "b", "~", "f", "r">>
Id_c == <<"f", "-", "c", "~", "f", "r">>
Id_z == <<"f", "-", "z", "~", "f", "r">>

Feed(id, url, more) ==
  JDict(<<KV("id", JStr(id)), KV("urls", JDict(<<KV("static_current", JStr(url))>>))>> \o more)

\* entries of an existing file
FeedA == Feed(Id_a, U0, <<>>)
FeedB_old == Feed(Id_b, U0, <<KV("name", JStr(<<"o", "l", "d">>))>>)
FeedZ == Feed(Id_z, U0, <<KV("name", JStr(<<>>)),
                          KV("license", JDict(<<KV("spdx_identifier", JStr(S_unknown))>>))>>)

\* incoming records
FeedB_new == Feed(Id_b, U1, <<KV("name", JStr(<<"n", "e", "w">>))>>)
FeedC == Feed(Id_c, U2, <<KV("tags", JDict(<<>>))>>)
IncomingPool == {FeedB_new, FeedC, FeedA}

FileOf(feeds) == Json(JDict(<<KV("feeds", JList(feeds))>>))

DmfrFiles ==
  {Missing, Invalid,
   Json(JList(<<>>)),
   Json(JDict(<<KV("feeds", JNone)>>)),
   Json(JDict(<<>>)),
   FileOf(<<FeedA, JStr(Id_b)>>),
   FileOf(<<FeedA, FeedB_old>>),
   FileOf(<<FeedB_old, FeedA>>),
   FileOf(<<FeedZ>>),
   FileOf(<<FeedZ, FeedB_old>>)}

\* sequences without repetition over a set, up to a length
RECURSIVE SeqsUpTo(_, _)
SeqsUpTo(S, n) ==
  IF n = 0 THEN {<<>>}
  ELSE LET shorter == SeqsUpTo(S, n - 1)
       IN shorter \cup {Append(q, x) : q \in shorter, x \in S}

Distinct(q) == \A i, j \in 1..Len(q) : i # j => q[i] # q[j]

IncomingLists == {q \in SeqsUpTo(IncomingPool, MaxIncoming) : Distinct(q)}


PriorEntry(id, version) == KV(id, JDict(<<KV("feed", JDict(<<KV("onestop_id", JStr(id))>>)),
                                          KV("feed_version", version)>>))
Version(sha1, size_bytes) == JDict(<<KV("sha1", sha1), KV("size_bytes", size_bytes)>>)

PriorMappings ==
  {JDict(<<>>),
   JDict(<<PriorEntry(Id_b, Version(JStr(H1), JInt(1000)))>>),
   JDict(<<PriorEntry(Id_b, Version(JNone, JInt(1000)))>>),
   JDict(<<PriorEntry(Id_b, JDict(<<KV("sha1", JStr(H1))>>))>>),
   JDict(<<PriorEntry(Id_b, Version(JStr(H1), JInt(1000))),
           PriorEntry(Id_c, Version(JStr(H2), JInt(1000)))>>)}

Response(status, content_length) ==
  [kind |-> "response", status |-> status, content_length |-> content_length]

HeadAnswers ==
  {[kind |-> "error"],
   Response(404, JStr(<<"1", "0", "0", "0">>)),
   Response(200, JNone),
   Response(200, JStr(<<"1", "0", "0", "0">>)),
   Response(200, JStr(<<"9", "9", "9">>)),
   Response(200, JStr(<<"a", "b", "c">>))}

\* only the URLs of incoming records are asked for
ProbedUrls == {U1, U2}
NoAnswers == [u \in ProbedUrls |-> [kind |-> "error"]]

(***************************************************************************)
(* SpecWrite: write_dmfr_file called, and called again, on the same        *)
(* arguments and the same probe answers, from every file.                  *)
(***************************************************************************)
InitWrite ==
  /\ pc = "write"
  /\ dmfr \in DmfrFiles
  /\ dmfr_before = dmfr
  /\ dmfr_first = dmfr
  /\ datasets = <<>>
  /\ existing_feeds \in PriorMappings
  /\ new_feeds \in IncomingLists
  /\ head \in [ProbedUrls -> HeadAnswers]
  /\ last = NoCall
  /\ calls = 0
  /\ events = <<>>
  /\ catalog_entry = JNone
  /\ given = JNone
  /\ records = <<>>
  /\ db_rows = <<>>
  /\ duplicates = <<>>
  /\ new_versions = <<>>
  /\ slug = <<>>
  /\ feed_id = <<>>

CallWrite ==
  /\ calls < 2
  /\ LET r == write_dmfr_file(new_feeds, existing_feeds, head, dmfr)
     IN /\ dmfr' = r.dmfr
        /\ last' = CallOutcome(r)
        /\ dmfr_first' = IF calls = 0 THEN r.dmfr ELSE dmfr_first
  /\ dmfr_before' = dmfr
  /\ calls' = calls + 1
  /\ UNCHANGED <<pc, datasets, existing_feeds, new_feeds, head, db_rows, duplicates,
                 new_versions, slug, feed_id,
                 catalog_entry, given, records, events>>

NextWrite == CallWrite

SpecWrite == InitWrite /\ [][NextWrite]_vars

(***************************************************************************)
(* get_existing_french_feeds, filter_gtfs_datasets, check_feed_versions    *)
(***************************************************************************)
RECURSIVE CollectFeeds(_, _, _)
CollectFeeds(agencies, i, feeds) ==
  IF i > Len(agencies) THEN feeds
  ELSE LET feed_version == GetDefault(agencies[i], "feed_version", JDict(<<>>))
           feed == Get(feed_version, "feed")
           feed_onestop_id == Get(feed, "onestop_id")
       IN IF /\ Truthy(feed_version)
             /\ Truthy(feed)
             /\ Truthy(feed_onestop_id)
             /\ ~HasKey(feeds, feed_onestop_id.s)
            THEN CollectFeeds(agencies, i + 1,
                              Put(feeds, feed_onestop_id.s,
                                  JDict(<<KV("feed", feed), KV("feed_version", feed_version)>>)))
            ELSE CollectFeeds(agencies, i + 1, feeds)

\* a variant that answers a failed request with a mapping kept from before
get_existing_french_feeds_Stale(answer) ==
  IF answer.kind = "error"
    THEN JDict(<<PriorEntry(Id_b, Version(JStr(H1), JInt(1000)))>>)
    ELSE CollectFeeds(answer.agencies, 1, JDict(<<>>))

\* the mapping built from the answer to FRENCH_FEEDS_QUERY; {} when the request fails
get_existing_french_feeds(answer) ==
  IF answer.kind = "error" THEN JDict(<<>>)
  ELSE CollectFeeds(answer.agencies, 1, JDict(<<>>))

\* the datasets that have a static GTFS resource
filter_gtfs_datasets(all_datasets) ==
  SelectSeq(all_datasets, LAMBDA dataset : Truthy(StaticGtfsResource(dataset)))

\* the loop of main over gtfs_datasets
CreateFeedRecords(gtfs_datasets, prior) ==
  SelectSeq([i \in 1..Len(gtfs_datasets) |-> create_feed_record(gtfs_datasets[i], prior)],
            Truthy)

\* the class of one row of the version store: "match", "changed" or "new"
RowStatus(row, prior) ==
  LET feed_data == Get(prior, row.onestop_id)
      api_sha1 == Get(GetDefault(feed_data, "feed_version", JDict(<<>>)), "sha1")
  IN IF ~Truthy(feed_data) THEN "new"
     ELSE IF ~Truthy(api_sha1) THEN "new"
     ELSE IF api_sha1 = row.sha1 THEN "match"
     ELSE "changed"

Classified(rows, prior) ==
  [i \in 1..Len(rows) |-> [feed_id |-> rows[i].onestop_id, sha1 |-> rows[i].sha1,
                           status |-> RowStatus(rows[i], prior)]]

\* writer.writerows(new_versions) with the fieldnames feed_id, old_sha1,
\* new_sha1, url, size_bytes, status: an entry of status 'new' has the key
\* 'sha1', which is not a fieldname, and DictWriter raises ValueError
ExportRaises(new_versions_found) ==
  \E i \in 1..Len(new_versions_found) : new_versions_found[i].status = "new"

\* check_feed_versions: (duplicates, new_versions), each in the order of the
\* rows; ([], []) when the export raises, "except Exception" catching it
check_feed_versions(rows, prior) ==
  LET found_duplicates == SelectSeq(Classified(rows, prior), LAMBDA r : r.status = "match")
      found_new == SelectSeq(Classified(rows, prior), LAMBDA r : r.status # "match")
  IN IF ExportRaises(found_new)
       THEN [duplicates |-> <<>>, new_versions |-> <<>>]
       ELSE [duplicates |-> found_duplicates, new_versions |-> found_new]

\* [f for f in new_feeds if f['id'] not in unchanged_ids]
WithoutUnchanged(feeds, dups) ==
  LET unchanged_ids == {dups[i].feed_id : i \in 1..Len(dups)}
  IN SelectSeq(feeds, LAMBDA f : Get(f, "id").s \notin unchanged_ids)

(***************************************************************************)
(* Inputs of main: the catalog, the directory's answer, the version store. *)
(***************************************************************************)
Resource(format, url) == JDict(<<KV("format", JStr(format)), KV("url", JStr(url))>>)

Dataset(dataset_slug, id, url_format, url) ==
  JDict(<<KV("slug", JStr(dataset_slug)),
          KV("id", JStr(id)),
          KV("title", JStr(<<"T">> \o id)),
          KV("resources", JList(<<Resource(url_format, url)>>))>>)

DatasetPool ==
  {Dataset(<<"b">>, <<"1">>, S_GTFS, U1),
   Dataset(<<"C">>, <<"2">>, S_gtfs, U2),
   Dataset(<<"b", "-">>, <<"3">>, S_GTFS, U2),
   Dataset(<<"r", "t">>, <<"4">>, <<"g", "t", "f", "s", "-", "r", "t">>, U1)}

Catalogs == {q \in SeqsUpTo(DatasetPool, MaxCatalog) : Distinct(q)}

\* an agency of the answer: the query asks for sha1 and feed only
Agency(id, sha1) ==
  JDict(<<KV("feed_version",
             JDict(<<KV("sha1", sha1),
                     KV("feed", JDict(<<KV("onestop_id", JStr(id)),
                                        KV("spec", JStr(S_GTFS)),
                                        KV("urls", JDict(<<KV("static_current", JStr(U0))>>))>>))>>))>>)

Agencies(q) == [kind |-> "agencies", agencies |-> q]

DirectoryAnswers ==
  {[kind |-> "error"],
   Agencies(<<>>),
   Agencies(<<Agency(Id_b, JStr(H1))>>),
   Agencies(<<Agency(Id_b, JStr(H1)), Agency(Id_b, JStr(H2))>>),
   Agencies(<<Agency(Id_b, JStr(H1)), Agency(Id_c, JNone)>>),
   Agencies(<<Agency(Id_b, JStr(H1)), Agency(Id_c, JStr(H2))>>),
   Agencies(<<JDict(<<KV("feed_version", JNone)>>), Agency(Id_c, JStr(H2))>>)}

Row(id, sha1) == [onestop_id |-> id, sha1 |-> JStr(sha1)]

\* the rows the fetch may leave for the feeds of the file, newest first
StoreChoices(file) ==
  LET entries == ExistingFeeds(file)
      ids == {Get(entries[i], "id").s : i \in {n \in 1..Len(entries) : IsStr(Get(entries[n], "id"))}}
  IN SeqsUpTo({Row(id, sha1) : id \in ids, sha1 \in {H1, H2}}, MaxDbRows)

(***************************************************************************)
(* Spec: main.                                                             *)
(***************************************************************************)
Init ==
  /\ pc = "start"
  /\ dmfr \in DmfrFiles
  /\ dmfr_before = dmfr
  /\ dmfr_first = dmfr
  /\ datasets \in Catalogs
  /\ existing_feeds = JDict(<<>>)
  /\ new_feeds = <<>>
  /\ head = NoAnswers
  /\ last = NoCall
  /\ calls = 0
  /\ events = <<>>
  /\ catalog_entry = JNone
  /\ given = JNone
  /\ records = <<>>
  /\ db_rows = <<>>
  /\ duplicates = <<>>
  /\ new_versions = <<>>
  /\ slug = <<>>
  /\ feed_id = <<>>

\* what main does, as the entries of events
LookedUp(answer) == [e |-> "lookup", failed |-> answer.kind = "error"]
BuiltRecords == [e |-> "records"]
Probed(url) == [e |-> "probe", url |-> url]
Written == [e |-> "write"]
Synced(rows) == [e |-> "sync", db_path |-> rows # <<>>]
CheckedVersions == [e |-> "check"]

\* existing_feeds = transitland.get_existing_french_feeds()
GetExistingFeeds ==
  /\ pc = "start"
  /\ \E answer \in DirectoryAnswers :
       /\ existing_feeds' = get_existing_french_feeds(answer)
       /\ events' = Append(events, LookedUp(answer))
  /\ pc' = "records"
  /\ UNCHANGED <<dmfr, dmfr_before, dmfr_first, datasets, new_feeds, head, last, calls,
                 db_rows, duplicates, new_versions, slug, feed_id,
                 catalog_entry, given, records>>

\* filter_gtfs_datasets and the loop over create_feed_record
CreateRecords ==
  /\ pc = "records"
  /\ new_feeds' = CreateFeedRecords(filter_gtfs_datasets(datasets), existing_feeds)
  /\ events' = Append(events, BuiltRecords)
  /\ pc' = "write"
  /\ UNCHANGED <<dmfr, dmfr_before, dmfr_first, datasets, existing_feeds, head, last, calls,
                 db_rows, duplicates, new_versions, slug, feed_id,
                 catalog_entry, given, records>>

\* the probe answers of a pass of main: every URL is answered alike
UniformAnswers == {[u \in ProbedUrls |-> answer] : answer \in HeadAnswers}

\* a call of write_dmfr_file from main; an exception it raises ends main
MainWrite(feeds, next) ==
  /\ \E answers \in UniformAnswers :
       \E r \in {write_dmfr_file(feeds, existing_feeds, answers, dmfr)} :
          /\ dmfr' = r.dmfr
          /\ last' = CallOutcome(r)
          /\ dmfr_first' = IF calls = 0 THEN r.dmfr ELSE dmfr_first
          /\ pc' = IF r.raised # "no" THEN "crashed" ELSE next
          /\ events' = events \o [i \in 1..Len(r.probed) |-> Probed(r.probed[i])]
                              \o (IF r.raised = "no" THEN <<Written>> ELSE <<>>)
  /\ dmfr_before' = dmfr
  /\ calls' = calls + 1

\* write_dmfr_file(new_feeds, existing_feeds)
WriteRecords ==
  /\ pc = "write"
  /\ MainWrite(new_feeds, IF new_feeds # <<>> THEN "sync" ELSE "done")
  /\ UNCHANGED <<datasets, existing_feeds, new_feeds, head, db_rows, duplicates,
                 new_versions, slug, feed_id,
                 catalog_entry, given, records>>

\* a variant that goes on to the version check without a database path
SyncAndFetch_ChecksAnyway ==
  /\ pc = "sync"
  /\ \E rows \in StoreChoices(dmfr) :
       /\ db_rows' = rows
       /\ events' = Append(events, Synced(rows))
       /\ pc' = "check"
  /\ UNCHANGED <<dmfr, dmfr_before, dmfr_first, datasets, existing_feeds, new_feeds, head,
                 last, calls, duplicates, new_versions, slug, feed_id,
                 catalog_entry, given, records>>

\* db_path = sync_and_fetch_feeds(): nothing when the file holds no feed or the
\* external tool leaves no feed version, else the version store
SyncAndFetch ==
  /\ pc = "sync"
  /\ \E rows \in StoreChoices(dmfr) :
       /\ db_rows' = rows
       /\ events' = Append(events, Synced(rows))
       /\ pc' = IF rows = <<>> THEN "done" ELSE "check"
  /\ UNCHANGED <<dmfr, dmfr_before, dmfr_first, datasets, existing_feeds, new_feeds, head,
                 last, calls, duplicates, new_versions, slug, feed_id,
                 catalog_entry, given, records>>

\* duplicates, new_versions = check_feed_versions(db_path, existing_feeds)
CheckVersions ==
  /\ pc = "check"
  /\ duplicates' = check_feed_versions(db_rows, existing_feeds).duplicates
  /\ new_versions' = check_feed_versions(db_rows, existing_feeds).new_versions
  /\ events' = Append(events, CheckedVersions)
  /\ pc' = IF check_feed_versions(db_rows, existing_feeds).duplicates # <<>>
             THEN "prune" ELSE "done"
  /\ UNCHANGED <<dmfr, dmfr_before, dmfr_first, datasets, existing_feeds, new_feeds, head,
                 last, calls, db_rows, slug, feed_id,
                 catalog_entry, given, records>>

\* write_dmfr_file([f for f in new_feeds if f['id'] not in unchanged_ids], existing_feeds)
PruneUnchanged ==
  /\ pc = "prune"
  /\ MainWrite(WithoutUnchanged(new_feeds, duplicates), "done")
  /\ UNCHANGED <<datasets, existing_feeds, new_feeds, head, db_rows, duplicates,
                 new_versions, slug, feed_id,
                 catalog_entry, given, records>>

Next ==
  \/ GetExistingFeeds
  \/ CreateRecords
  \/ WriteRecords
  \/ SyncAndFetch
  \/ CheckVersions
  \/ PruneUnchanged

Spec == Init /\ [][Next]_vars

(***************************************************************************)
(* SpecId: the identifier of every slug over a small alphabet.             *)
(***************************************************************************)
SlugChars == {"F", "r", "-", "_", "~"}
Slugs == UNION {[1..n -> SlugChars] : n \in 0..MaxSlugLen}

InitId ==
  /\ pc = "slug"
  /\ slug \in Slugs
  /\ feed_id = <<>>
  /\ dmfr = Missing
  /\ dmfr_before = Missing
  /\ dmfr_first = Missing
  /\ datasets = <<>>
  /\ existing_feeds = JDict(<<>>)
  /\ new_feeds = <<>>
  /\ head = NoAnswers
  /\ last = NoCall
  /\ calls = 0
  /\ events = <<>>
  /\ catalog_entry = JNone
  /\ given = JNone
  /\ records = <<>>
  /\ db_rows = <<>>
  /\ duplicates = <<>>
  /\ new_versions = <<>>

ComputeFeedId ==
  /\ pc = "slug"
  /\ feed_id' = FeedId(slug)
  /\ pc' = "id"
  /\ UNCHANGED <<dmfr, dmfr_before, dmfr_first, datasets, existing_feeds, new_feeds, head,
                 last, calls, db_rows, duplicates, new_versions, slug,
                 catalog_entry, given, records, events>>

\* the identifier is handed to the same computation as a slug
ComputeFeedIdAgain ==
  /\ pc = "id"
  /\ slug' = feed_id
  /\ feed_id' = FeedId(feed_id)
  /\ pc' = "again"
  /\ UNCHANGED <<dmfr, dmfr_before, dmfr_first, datasets, existing_feeds, new_feeds, head,
                 last, calls, db_rows, duplicates, new_versions, catalog_entry, given, records, events>>

NextId ==
  \/ ComputeFeedId
  \/ ComputeFeedIdAgain

SpecId == InitId /\ [][NextId]_vars

(***************************************************************************)
(* SpecRecord: create_feed_record called, and called again, on one catalog *)
(* entry and one prior mapping.                                            *)
(***************************************************************************)
\* a catalog entry: slug and id, then the optional keys, then the resources
Entry(more, resources) ==
  JDict(<<KV("slug", JStr(<<"b">>)), KV("id", JStr(<<"1">>))>> \o more
        \o <<KV("resources", JList(resources))>>)

S_title == <<"T">>
S_page == <<"p">>
S_xyz == <<"u", "n", "k", "n", "o", "w", "n", "-", "c", "o", "d", "e", "-", "x", "y", "z">>
S_odbl_typed == <<" ", "O", "D", "C", "-", "O", "D", "b", "L", " ">>
S_csv == <<"c", "s", "v">>
S_gtfs_rt == <<"g", "t", "f", "s", "-", "r", "t">>

Titles == {<<>>, <<KV("title", JStr(<<>>))>>, <<KV("title", JStr(S_title))>>}
Pages == {<<>>, <<KV("page_url", JStr(S_page))>>}
LicenceCodes ==
  {S_odc_odbl, S_odbl_typed, S_lov2, S_fr_lo, S_licence_ouverte, S_mobility_licence,
   S_other_pd, S_notspecified, S_xyz}
Licences == {<<>>} \cup {<<KV("licence", JStr(code))>> : code \in LicenceCodes}

ResourceLists ==
  {<<>>,
   <<Resource(S_gtfs_rt, U1)>>,
   <<Resource(S_csv, U0), Resource(S_gtfs_rt, U1)>>,
   <<Resource(S_gtfs_rt, U0), Resource(S_gtfs, U1), Resource(S_GTFS, U2)>>,
   <<JDict(<<KV("url", JStr(U0))>>), Resource(S_GTFS, U2), Resource(S_gtfs, U1)>>}

Entries ==
  {Entry(title \o page \o licence, resources) :
     title \in Titles, page \in Pages, licence \in Licences, resources \in ResourceLists}

S_MIT == <<"M", "I", "T">>
S_old == <<"o", "l", "d">>

\* prior records of the identifier f-b~fr, and one of another identifier
PriorFull ==
  JDict(<<KV("urls", JDict(<<KV("static_current", JStr(U0))>>)),
          KV("feed_versions", JList(<<JDict(<<KV("sha1", JStr(H1))>>),
                                      JDict(<<KV("sha1", JStr(H2))>>)>>)),
          KV("feed_state", JDict(<<KV("feed_version", JStr(H1))>>)),
          KV("name", JStr(S_old)),
          KV("license", JDict(<<KV("spdx_identifier", JStr(S_MIT)), KV("url", JStr(U0))>>)),
          KV("tags", JDict(<<KV("fr_nap_dataset_id", JStr(<<"0">>)),
                             KV("notes", JStr(S_old))>>))>>)

PriorWithEmpties ==
  JDict(<<KV("feed_versions", JList(<<JDict(<<KV("sha1", JStr(H1)), KV("url", JStr(<<>>))>>),
                                      JDict(<<KV("sha1", JStr(<<>>))>>)>>)),
          KV("feed_state", JDict(<<KV("last_error", JStr(<<>>)),
                                   KV("feed_version", JStr(H1))>>)),
          KV("license", JDict(<<KV("spdx_identifier", JStr(S_MIT)),
                                KV("attribution_text", JStr(<<>>))>>)),
          KV("tags", JDict(<<KV("notes", JStr(<<>>)),
                             KV("status", JStr(S_unknown)),
                             KV("kept", JStr(S_old))>>))>>)

PriorBare ==
  JDict(<<KV("feed_versions", JList(<<>>)),
          KV("name", JStr(<<>>)),
          KV("license", JDict(<<KV("url", JStr(U0))>>)),
          KV("languages", JList(<<JStr(<<"f", "r">>)>>))>>)

PriorRecordMappings ==
  {JDict(<<>>),
   JDict(<<PriorEntry(Id_b, Version(JStr(H1), JInt(1000)))>>),
   JDict(<<KV(Id_b, PriorFull)>>),
   JDict(<<KV(Id_b, PriorWithEmpties)>>),
   JDict(<<KV(Id_b, PriorBare)>>),
   JDict(<<KV(Id_c, PriorFull)>>),
   JDict(<<KV(Id_c, PriorBare), KV(Id_b, PriorFull)>>)}

\* existing_feed['tags'] once existing_tags = existing_feed['tags'].copy() has
\* been updated: the update is made on the copy
TagsLeftInPrior_NoCopy(existing_feed, feed_record) ==
  Update(Get(existing_feed, "tags"), Get(feed_record, "tags"))

TagsLeftInPrior(existing_feed, feed_record) == Get(existing_feed, "tags")

\* existing_feeds as a call of create_feed_record leaves it.  The objects of
\* the prior mapping that the call binds to a name are the prior license
\* (feed_record['license'] = existing_license, with no write to it afterwards)
\* and the prior tags
PriorAfterCall(entry, prior) ==
  LET gtfs_resource == StaticGtfsResource(entry)
      feed_record == BaseRecord(entry, gtfs_resource)
      id == Get(feed_record, "id").s
      existing_feed == Get(prior, id)
  IN IF ~Truthy(gtfs_resource) THEN prior
     ELSE IF ~Truthy(existing_feed) THEN prior
     ELSE IF ~Truthy(Get(existing_feed, "tags")) THEN prior
     ELSE Put(prior, id,
              Put(existing_feed, "tags",
                  TagsLeftInPrior(existing_feed, PreserveFrom(feed_record, existing_feed))))

InitRecord ==
  /\ pc = "record"
  /\ catalog_entry \in Entries
  /\ existing_feeds \in PriorRecordMappings
  /\ given = [dataset |-> catalog_entry, existing_feeds |-> existing_feeds]
  /\ records = <<>>
  /\ calls = 0
  /\ events = <<>>
  /\ dmfr = Missing
  /\ dmfr_before = Missing
  /\ dmfr_first = Missing
  /\ datasets = <<>>
  /\ new_feeds = <<>>
  /\ head = NoAnswers
  /\ last = NoCall
  /\ db_rows = <<>>
  /\ duplicates = <<>>
  /\ new_versions = <<>>
  /\ slug = <<>>
  /\ feed_id = <<>>

\* feed_record = create_feed_record(dataset, existing_feeds)
CallCreateFeedRecord ==
  /\ pc = "record"
  /\ calls < 2
  /\ records' = Append(records, create_feed_record(catalog_entry, existing_feeds))
  /\ existing_feeds' = PriorAfterCall(catalog_entry, existing_feeds)
  /\ calls' = calls + 1
  /\ UNCHANGED <<pc, dmfr, dmfr_before, dmfr_first, datasets, new_feeds, head, last,
                 db_rows, duplicates, new_versions, slug, feed_id, catalog_entry, given, events>>

NextRecord == CallCreateFeedRecord

SpecRecord == InitRecord /\ [][NextRecord]_vars

(***************************************************************************)
(* Vocabulary of the properties.                                           *)
(***************************************************************************)
SeqSet(q) == {q[i] : i \in 1..Len(q)}

\* the entries of a file that is a JSON object with a list under "feeds"
FileEntries(file) ==
  IF /\ file.kind = "json"
     /\ IsDict(file.value)
     /\ HasKey(file.value, "feeds")
     /\ IsList(Get(file.value, "feeds"))
    THEN Get(file.value, "feeds").items
    ELSE <<>>

IdsIn(entries) == {Get(e, "id") : e \in entries}

\* the file is there but is not a JSON object with a list of feed objects
IsCorrupt(file) ==
  \/ file.kind = "invalid"
  \/ /\ file.kind = "json"
     /\ \/ ~IsDict(file.value)
        \/ ~HasKey(file.value, "feeds")
        \/ ~IsList(Get(file.value, "feeds"))
        \/ \E e \in SeqSet(FileEntries(file)) : ~IsDict(e)

UrlOf(feed) == Get(Get(feed, "urls"), "static_current").s

\* the prior mapping has a record with a known sha1 for the feed
PriorHasSha1(feed) ==
  /\ HasKey(existing_feeds, Get(feed, "id").s)
  /\ LET prior == Get(existing_feeds, Get(feed, "id").s)
     IN /\ HasKey(prior, "feed_version")
        /\ IsDict(Get(prior, "feed_version"))
        /\ IsStr(Get(Get(prior, "feed_version"), "sha1"))
        /\ Get(Get(prior, "feed_version"), "sha1").s # <<>>

PriorSize(feed) ==
  Get(Get(Get(existing_feeds, Get(feed, "id").s), "feed_version"), "size_bytes")

\* the number a content-length header states, -1 when it states none
HeaderNumber(content_length) ==
  CASE content_length = JStr(<<"1", "0", "0", "0">>) -> 1000
    [] content_length = JStr(<<"9", "9", "9">>) -> 999
    [] OTHER -> -1

\* a kept or preserved record as the file holds it
AsWritten(feed) == clean_empty_values(feed)

(***************************************************************************)
(* C2: the document written holds exactly the kept incoming identifiers,   *)
(* each carried by the incoming record, plus the identifiers of the        *)
(* existing document that are not kept incoming identifiers.               *)
(***************************************************************************)
C2_WrittenIdentifiers ==
  (calls >= 1 /\ last.raised = "no") =>
    LET kept == SeqSet(last.feeds_to_write)
        before == SeqSet(FileEntries(dmfr_before))
        written == SeqSet(FileEntries(dmfr))
    IN /\ IdsIn(written) = IdsIn(kept) \cup (IdsIn(before) \ IdsIn(kept))
       /\ \A f \in kept : AsWritten(f) \in written
       /\ \A w \in written : Get(w, "id") \in IdsIn(kept) => \E f \in kept : w = AsWritten(f)

C2_Witness ==
  /\ calls = 1
  /\ last.raised = "no"
  /\ last.skipped_feeds # <<>>
  /\ IdsIn(SeqSet(last.feeds_to_write)) \cap IdsIn(SeqSet(FileEntries(dmfr_before))) # {}
  /\ IdsIn(SeqSet(FileEntries(dmfr_before))) \ IdsIn(SeqSet(last.feeds_to_write)) # {}

(***************************************************************************)
(* C3: the feeds of every document written are sorted by identifier,       *)
(* ascending.                                                              *)
(***************************************************************************)
\* the code point of a character, for the characters the model uses
Ord(c) ==
  CASE IndexIn(c, UpperChars) > 0 -> 64 + IndexIn(c, UpperChars)
    [] IndexIn(c, LowerChars) > 0 -> 96 + IndexIn(c, LowerChars)
    [] IndexIn(c, DigitChars) > 0 -> 47 + IndexIn(c, DigitChars)
    [] c = " " -> 32
    [] c = "-" -> 45
    [] c = "." -> 46
    [] c = "/" -> 47
    [] c = ":" -> 58
    [] c = "_" -> 95
    [] c = "~" -> 126
    [] OTHER -> 127

\* a < b for Python strings: by code point, a proper prefix first
RECURSIVE StrLess(_, _)
StrLess(a, b) ==
  IF a = <<>> THEN b # <<>>
  ELSE IF b = <<>> THEN FALSE
  ELSE IF Head(a) = Head(b) THEN StrLess(Tail(a), Tail(b))
  ELSE Ord(Head(a)) < Ord(Head(b))

SortedById(entries) ==
  \A i, j \in 1..Len(entries) :
    i < j => ~StrLess(Get(entries[j], "id").s, Get(entries[i], "id").s)

C3_SortedById == (calls >= 1 /\ last.raised = "no") => SortedById(FileEntries(dmfr))

(***************************************************************************)
(* C4: an incoming feed is skipped exactly when a prior record with a      *)
(* known sha1 exists for its id, the header probe answered 200 and the     *)
(* content-length it stated equals the prior size_bytes; otherwise it is   *)
(* kept.                                                                   *)
(***************************************************************************)
SkipCase(feed) ==
  /\ PriorHasSha1(feed)
  /\ head[UrlOf(feed)].kind = "response"
  /\ head[UrlOf(feed)].status = 200
  /\ PriorSize(feed) = JInt(HeaderNumber(head[UrlOf(feed)].content_length))

C4_SkipOnlyOnSizeMatch ==
  calls >= 1 =>
    \A feed \in SeqSet(new_feeds) :
      /\ feed \in SeqSet(last.skipped_feeds) <=> SkipCase(feed)
      /\ feed \in SeqSet(last.feeds_to_write) <=> ~SkipCase(feed)

C4_Witness ==
  /\ calls = 1
  /\ \E feed \in SeqSet(last.skipped_feeds) :
       /\ PriorSize(feed) = JInt(1000)
       /\ head[UrlOf(feed)].content_length = JStr(<<"1", "0", "0", "0">>)
  /\ \E feed \in SeqSet(last.feeds_to_write) :
       /\ PriorHasSha1(feed)
       /\ PriorSize(feed) = JInt(1000)
       /\ head[UrlOf(feed)] = Response(200, JStr(<<"9", "9", "9">>))

(***************************************************************************)
(* C5: when the probe of a feed fails, answers a status other than 200, or *)
(* an unexpected error is raised while probing or comparing, the feed is   *)
(* kept and is in the written document, the feeds after it are still       *)
(* checked, and write_dmfr_file does not raise.                            *)
(***************************************************************************)
ProbeFails(feed) ==
  /\ PriorHasSha1(feed)
  /\ \/ head[UrlOf(feed)].kind = "error"
     \/ head[UrlOf(feed)].status # 200
     \/ head[UrlOf(feed)].content_length = JStr(<<"a", "b", "c">>)

\* the feeds after position i are each decided, and probed when they have a
\* prior sha1
RestChecked(i) ==
  \A j \in (i + 1)..Len(new_feeds) :
    /\ new_feeds[j] \in SeqSet(last.feeds_to_write) \cup SeqSet(last.skipped_feeds)
    /\ PriorHasSha1(new_feeds[j]) => UrlOf(new_feeds[j]) \in SeqSet(last.probed)

C5_ProbeFailureKeepsFeed ==
  calls >= 1 =>
    \A i \in 1..Len(new_feeds) :
      ProbeFails(new_feeds[i]) =>
        /\ new_feeds[i] \in SeqSet(last.feeds_to_write)
        /\ RestChecked(i)
        /\ last.raised = "no"
        /\ AsWritten(new_feeds[i]) \in SeqSet(FileEntries(dmfr))

\* what the probing loop by itself guarantees: the feed is kept, the rest is
\* checked, and no exception leaves the loop
ProbeFailureHandledInLoop ==
  calls >= 1 =>
    \A i \in 1..Len(new_feeds) :
      ProbeFails(new_feeds[i]) =>
        /\ new_feeds[i] \in SeqSet(last.feeds_to_write)
        /\ RestChecked(i)
        /\ last.raised # "probing"
        /\ last.raised = "no" => AsWritten(new_feeds[i]) \in SeqSet(FileEntries(dmfr))

(***************************************************************************)
(* C7: when the existing document is missing or corrupt, write_dmfr_file   *)
(* does not raise and writes exactly the kept incoming feeds.              *)
(***************************************************************************)
C7_CorruptFileTolerated ==
  (calls = 1 /\ (dmfr_before = Missing \/ IsCorrupt(dmfr_before))) =>
    /\ last.raised = "no"
    /\ dmfr = FileOf([i \in 1..Len(last.feeds_to_write) |-> AsWritten(last.feeds_to_write[i])])

(***************************************************************************)
(* C8: a second call with the same incoming records, the same prior        *)
(* mapping and the same probe answers leaves the document as the first     *)
(* call left it.                                                           *)
(***************************************************************************)
C8_SecondWriteSameDocument == calls = 2 => dmfr = dmfr_first

(***************************************************************************)
(* C9 as stated: an entry of the existing document whose identifier is not *)
(* among the incoming identifiers is written back with exactly the content *)
(* it had.                                                                 *)
(***************************************************************************)
Untouched == {e \in SeqSet(FileEntries(dmfr_before)) : Get(e, "id") \notin IdsIn(SeqSet(new_feeds))}

C9_PreservedVerbatim ==
  (calls = 1 /\ last.raised = "no") => \A e \in Untouched : e \in SeqSet(FileEntries(dmfr))

(***************************************************************************)
(* C9 as amended: such an entry is written back with its empty values      *)
(* (None, "", [], {}, "unknown") removed by one pass of                    *)
(* clean_empty_values and nothing else changed; an entry that holds no     *)
(* such value is written back exactly as it was.                           *)
(***************************************************************************)
RECURSIVE HasEmptyValue(_)
HasEmptyValue(x) ==
  \/ IsDict(x) /\ \E i \in 1..Len(x.kv) : IsEmptyValue(x.kv[i].v) \/ HasEmptyValue(x.kv[i].v)
  \/ IsList(x) /\ \E i \in 1..Len(x.items) : IsEmptyItem(x.items[i]) \/ HasEmptyValue(x.items[i])

\* w is e without some of its keys, the keys kept in order
KeepsOnly(w, e, dropped) ==
  /\ {w.kv[i].k : i \in 1..Len(w.kv)} = {e.kv[i].k : i \in 1..Len(e.kv)} \ dropped
  /\ Len(w.kv) = Len(e.kv) - Cardinality(dropped)

C9_PreservedCleaned ==
  (calls = 1 /\ last.raised = "no") =>
    \A e \in Untouched :
      \E w \in SeqSet(FileEntries(dmfr)) :
        /\ w = AsWritten(e)
        /\ KeepsOnly(w, e, {e.kv[i].k : i \in {n \in 1..Len(e.kv) : IsEmptyValue(e.kv[n].v)}})
        /\ ~HasEmptyValue(e) => w = e

C9_Witness ==
  /\ calls = 1
  /\ last.raised = "no"
  /\ \E e \in Untouched : HasEmptyValue(e) /\ e \notin SeqSet(FileEntries(dmfr))
  /\ \E e \in Untouched : ~HasEmptyValue(e)
  /\ new_feeds # <<>>

(***************************************************************************)
(* C10 as stated: the identifier of any slug is "f-" followed by a name    *)
(* component that is lower-case, holds no "-" or "_", no two consecutive   *)
(* "~", no leading or trailing "~", and ends with exactly one regional     *)
(* suffix, never a doubled one.                                            *)
(***************************************************************************)
NamePart(id) == SubSeq(id, 3, Len(id))

EndsWithRegion(name) ==
  \/ EndsWith(name, <<"~", "f", "r">>)
  \/ EndsWith(name, <<"~", "f", "r", "a", "n", "c", "e">>)
  \/ EndsWith(name, <<"~", "r", "e", "u", "n", "i", "o", "n">>)

\* the name ends with a regional suffix that follows another one
EndsWithDoubledRegion(name) ==
  \E n \in 1..Len(name) :
    /\ EndsWithRegion(name)
    /\ EndsWithRegion(SubSeq(name, 1, n))
    /\ SubSeq(name, n + 1, Len(name)) \in RegionalSuffixes

WellFormedName(name) ==
  /\ \A i \in 1..Len(name) : IndexIn(name[i], UpperChars) = 0 /\ name[i] \notin {"-", "_"}
  /\ \A i \in 1..(Len(name) - 1) : ~(name[i] = "~" /\ name[i + 1] = "~")
  /\ name # <<>> /\ name[Len(name)] # "~"
  /\ EndsWithRegion(name)

C10_IdentifierShape ==
  pc = "id" =>
    /\ SubSeq(feed_id, 1, 2) = <<"f", "-">>
    /\ WellFormedName(NamePart(feed_id))
    /\ NamePart(feed_id)[1] # "~"
    /\ ~EndsWithDoubledRegion(NamePart(feed_id))

(***************************************************************************)
(* C10 as amended: the name component is lower-case, holds no "-" or "_",  *)
(* no two consecutive "~", no trailing "~", and ends with a regional       *)
(* suffix; it has a leading "~" exactly when the slug holds nothing but    *)
(* "-", "_" and "~", and it is then "~fr"; it ends with a doubled suffix   *)
(* only when the slug itself ended with one, the code having appended      *)
(* nothing.                                                                *)
(***************************************************************************)
OnlySeparators(s) == \A i \in 1..Len(s) : s[i] \in {"-", "_", "~"}

C10_IdentifierShapeAmended ==
  pc = "id" =>
    /\ SubSeq(feed_id, 1, 2) = <<"f", "-">>
    /\ WellFormedName(NamePart(feed_id))
    /\ NamePart(feed_id)[1] = "~" <=> OnlySeparators(slug)
    /\ OnlySeparators(slug) => NamePart(feed_id) = <<"~", "f", "r">>
    /\ EndsWithDoubledRegion(NamePart(feed_id)) =>
         /\ NamePart(feed_id) = CleanSlug(slug)
         /\ EndsWithDoubledRegion(CleanSlug(slug))

C10_Witness ==
  /\ pc = "id"
  /\ slug = <<"F", "-", "_", "r", "_", "F", "r">>
  /\ feed_id = <<"f", "-", "f", "~", "r", "~", "f", "r">>

(***************************************************************************)
(* C1: after a pass of main in which check_feed_versions reports an        *)
(* identifier as an unchanged duplicate, the document left by the pruning  *)
(* call of write_dmfr_file holds no feed with that identifier.             *)
(***************************************************************************)
C1_PrunedFeedLeavesDocument ==
  (pc = "done" /\ calls = 2 /\ last.raised = "no") =>
    \A i \in 1..Len(duplicates) :
      JStr(duplicates[i].feed_id) \notin IdsIn(SeqSet(FileEntries(dmfr)))

(***************************************************************************)
(* C6: given a catalog whose slugs are pairwise distinct and an existing   *)
(* document whose identifiers are pairwise distinct, the identifiers of    *)
(* the document written are pairwise distinct.                             *)
(***************************************************************************)
PairwiseDistinctIds(entries) ==
  \A i, j \in 1..Len(entries) : i # j => Get(entries[i], "id") # Get(entries[j], "id")

PairwiseDistinctSlugs ==
  \A i, j \in 1..Len(datasets) : i # j => Get(datasets[i], "slug") # Get(datasets[j], "slug")

C6_DistinctIdentifiers ==
  (/\ calls >= 1
   /\ last.raised = "no"
   /\ PairwiseDistinctSlugs
   /\ PairwiseDistinctIds(FileEntries(dmfr_before))) =>
    PairwiseDistinctIds(FileEntries(dmfr))

(***************************************************************************)
(* C11: the identifier computation applied to its own output gives the     *)
(* same identifier.                                                        *)
(***************************************************************************)
C11_IdentifierIdempotent == pc = "again" => feed_id = slug

\* what re-application does give: the first identifier's name component, less
\* a leading "~", behind "f-f~", no second regional suffix being appended
ReappliedIdentifier ==
  pc = "again" => feed_id = <<"f", "-", "f", "~">> \o LStrip(NamePart(slug), "~")

(***************************************************************************)
(* Vocabulary of the properties of create_feed_record.                     *)
(***************************************************************************)
\* the value under a key, None when there is no such key or no mapping at all
Field(x, key) == IF IsDict(x) THEN Get(x, key) ELSE JNone

\* the entry and the prior mapping the calls were made with
GivenEntry == given.dataset
GivenPrior == given.existing_feeds

EntryResources == Get(GivenEntry, "resources").items

\* the positions of the resources whose format is GTFS, in any case
GtfsPositions ==
  {i \in 1..Len(EntryResources) :
     /\ HasKey(EntryResources[i], "format")
     /\ Lower(Get(EntryResources[i], "format").s) = S_gtfs}

FirstGtfsPosition == CHOOSE i \in GtfsPositions : \A j \in GtfsPositions : i <= j

RealtimeUrls ==
  {Get(EntryResources[i], "url") :
     i \in {n \in 1..Len(EntryResources) :
              /\ HasKey(EntryResources[n], "format")
              /\ Lower(Get(EntryResources[n], "format").s) = S_gtfs_rt}}

\* the prior record of the entry's identifier, None when there is none
PriorRecord == Get(GivenPrior, Id_b)

(***************************************************************************)
(* C12: create_feed_record returns None exactly when the entry has no      *)
(* resource whose format is GTFS in any case; otherwise urls.static_current*)
(* of the record is the url of the first such resource, never that of a    *)
(* GTFS-RT resource, with or without a prior record of another URL.        *)
(***************************************************************************)
C12_FirstStaticResource ==
  \A k \in 1..Len(records) :
    /\ records[k] = JNone <=> GtfsPositions = {}
    /\ GtfsPositions # {} =>
         /\ Get(Get(records[k], "urls"), "static_current")
              = Get(EntryResources[FirstGtfsPosition], "url")
         /\ Get(Get(records[k], "urls"), "static_current") \notin RealtimeUrls

C12_Witness ==
  /\ Len(records) = 2
  /\ EntryResources = <<Resource(S_gtfs_rt, U0), Resource(S_gtfs, U1), Resource(S_GTFS, U2)>>
  /\ Truthy(PriorRecord)
  /\ Field(Field(PriorRecord, "urls"), "static_current") = JStr(U0)
  /\ Field(Field(records[2], "urls"), "static_current") = JStr(U1)

(***************************************************************************)
(* C13: for an entry with no prior record, the licence code is matched     *)
(* lower-cased and trimmed, and the license of the record follows the      *)
(* table: odc-odbl gives ODbL-1.0 with the three permissions "yes" and     *)
(* share_alike_optional "no"; lov2, fr-lo, licence-ouverte and             *)
(* mobility-licence give LO-2.0, other-pd gives CC0-1.0, each with the     *)
(* four permission fields "yes".                                           *)
(***************************************************************************)
NoPriorRecord == ~HasKey(GivenPrior, Id_b)

\* the entry's licence code, lower-cased and trimmed; "" when it has none
LicenceCode ==
  IF HasKey(GivenEntry, "licence") THEN Strip(Lower(Get(GivenEntry, "licence").s), " ")
  ELSE <<>>

PermissionFields ==
  {"redistribution_allowed", "commercial_use_allowed", "create_derived_product",
   "share_alike_optional"}

LicenseIs(license, spdx, share_alike) ==
  /\ Field(license, "spdx_identifier") = JStr(spdx)
  /\ \A f \in PermissionFields \ {"share_alike_optional"} : Field(license, f) = JStr(S_yes)
  /\ Field(license, "share_alike_optional") = JStr(share_alike)

C13_LicenseTable ==
  \A k \in 1..Len(records) :
    (NoPriorRecord /\ records[k] # JNone) =>
      LET license == Field(records[k], "license")
      IN /\ LicenceCode = S_odc_odbl => LicenseIs(license, S_ODbL, S_no)
         /\ LicenceCode \in {S_lov2, S_fr_lo, S_licence_ouverte, S_mobility_licence}
              => LicenseIs(license, S_LO, S_yes)
         /\ LicenceCode = S_other_pd => LicenseIs(license, S_CC0, S_yes)

C13_Witness ==
  /\ Len(records) = 1
  /\ NoPriorRecord
  /\ Field(GivenEntry, "licence") = JStr(S_odbl_typed)
  /\ LicenseIs(Field(records[1], "license"), S_ODbL, S_no)

(***************************************************************************)
(* C14 as stated: for an entry with no prior record whose licence code is  *)
(* not in the table or is "notspecified", the license of the record has no *)
(* spdx_identifier, has the four permission fields equal to "unknown" and  *)
(* has attribution_text equal to the entry's title.                        *)
(***************************************************************************)
\* the entry has a licence code that maps to no SPDX identifier
UnmappedLicence ==
  /\ Truthy(Field(GivenEntry, "licence"))
  /\ LicenceCode \notin {S_odc_odbl, S_lov2, S_fr_lo, S_licence_ouverte,
                         S_mobility_licence, S_other_pd}

PreservedFields == {"feed_versions", "feed_state"}

C15_VersionsVerbatim ==
  \A k \in 1..Len(records) :
    (records[k] # JNone /\ Truthy(PriorRecord)) =>
      \A f \in PreservedFields :
        Truthy(Field(PriorRecord, f)) => Field(records[k], f) = Field(PriorRecord, f)

(***************************************************************************)
(* C15 as amended: a non-empty feed_versions or feed_state of the prior    *)
(* record is carried after one pass of clean_empty_values over it (its     *)
(* empty values removed, the order kept), so it is equal to the prior      *)
(* value when that value holds no empty value; an empty or missing one is  *)
(* not carried.                                                            *)
(***************************************************************************)
C15_VersionsCleaned ==
  \A k \in 1..Len(records) :
    (records[k] # JNone /\ Truthy(PriorRecord)) =>
      \A f \in PreservedFields :
        IF Truthy(Field(PriorRecord, f))
          THEN /\ Field(records[k], f) = AsWritten(Field(PriorRecord, f))
               /\ ~HasEmptyValue(Field(PriorRecord, f))
                    => Field(records[k], f) = Field(PriorRecord, f)
          ELSE ~HasKey(records[k], f)

C15_Witness ==
  /\ Len(records) = 1
  /\ PriorRecord = PriorWithEmpties
  /\ Field(records[1], "feed_versions")
       = JList(<<JDict(<<KV("sha1", JStr(H1))>>), JDict(<<>>)>>)
  /\ Field(records[1], "feed_state") = JDict(<<KV("feed_version", JStr(H1))>>)

(***************************************************************************)
(* C16 as stated: every record has the tag fr_nap_dataset_id equal to the  *)
(* entry's catalog id; when the prior record has tags, the new provenance  *)
(* value wins and every other prior tag key is in the result with its      *)
(* prior value.                                                            *)
(***************************************************************************)
PriorTags == Field(PriorRecord, "tags")

\* the keys of the prior tags other than the provenance key
OtherPriorTagKeys ==
  IF Truthy(PriorTags)
    THEN {PriorTags.kv[i].k : i \in 1..Len(PriorTags.kv)} \ {"fr_nap_dataset_id"}
    ELSE {}

HasProvenance(record) ==
  Field(Field(record, "tags"), "fr_nap_dataset_id") = Field(GivenEntry, "id")

C16_TagsSurvive ==
  \A k \in 1..Len(records) :
    records[k] # JNone =>
      /\ HasProvenance(records[k])
      /\ \A key \in OtherPriorTagKeys :
           Field(Field(records[k], "tags"), key) = Get(PriorTags, key)

(***************************************************************************)
(* C16 as amended: every record has the tag fr_nap_dataset_id equal to the *)
(* entry's catalog id, whatever the prior tags say; every other prior tag  *)
(* key whose value is not empty (None, "", [], {}, "unknown") is in the    *)
(* result with its prior value, a prior tag key with an empty value is not *)
(* in the result, and the result has no other key.                         *)
(***************************************************************************)
TagKeys(record) ==
  LET tags == Field(record, "tags")
  IN {tags.kv[i].k : i \in 1..Len(tags.kv)}

C16_NonEmptyTagsSurvive ==
  \A k \in 1..Len(records) :
    records[k] # JNone =>
      /\ HasProvenance(records[k])
      /\ \A key \in OtherPriorTagKeys :
           IF IsEmptyValue(Get(PriorTags, key))
             THEN key \notin TagKeys(records[k])
             ELSE Field(Field(records[k], "tags"), key) = Get(PriorTags, key)
      /\ TagKeys(records[k]) \subseteq {"fr_nap_dataset_id"} \cup OtherPriorTagKeys

C16_Witness ==
  /\ Len(records) = 1
  /\ PriorRecord = PriorFull
  /\ Get(PriorTags, "fr_nap_dataset_id") = JStr(<<"0">>)
  /\ Field(records[1], "tags")
       = JDict(<<KV("fr_nap_dataset_id", JStr(<<"1">>)), KV("notes", JStr(S_old))>>)

(***************************************************************************)
(* C17 as stated: when a prior record exists, the license of the record is *)
(* the prior license as a whole exactly when the newly mapped license has  *)
(* no spdx_identifier and the prior license has one; otherwise it is the   *)
(* newly mapped license, its url set from the entry's page_url.            *)
(***************************************************************************)
PriorLicense == Field(PriorRecord, "license")

\* the entry's licence code maps to an SPDX identifier
MappedLicence ==
  /\ Truthy(Field(GivenEntry, "licence"))
  /\ LicenceCode \in {S_odc_odbl, S_lov2, S_fr_lo, S_licence_ouverte,
                      S_mobility_licence, S_other_pd}

TakesPriorLicense == Truthy(Field(PriorLicense, "spdx_identifier")) /\ ~MappedLicence

\* the license a record shows for the newly mapped license: nothing when the
\* mapping gave an empty license
MappedLicenseShown ==
  IF NewLicense(GivenEntry) = JDict(<<>>) THEN JNone ELSE AsWritten(NewLicense(GivenEntry))

C17_LicenseChoice ==
  \A k \in 1..Len(records) :
    (records[k] # JNone /\ Truthy(PriorRecord)) =>
      IF TakesPriorLicense
        THEN Field(records[k], "license") = PriorLicense
        ELSE /\ Field(records[k], "license") = MappedLicenseShown
             /\ Field(Field(records[k], "license"), "url") = Field(GivenEntry, "page_url")

(***************************************************************************)
(* C17 as amended: in the first case the license of the record is the      *)
(* prior license after one pass of clean_empty_values (equal to it when it *)
(* holds no empty value), the url of the entry's page_url not being added; *)
(* in every other case it is the newly mapped license, cleaned in the same *)
(* way, with its url equal to the entry's page_url.                        *)
(***************************************************************************)
C17_LicenseChoiceCleaned ==
  \A k \in 1..Len(records) :
    (records[k] # JNone /\ Truthy(PriorRecord)) =>
      IF TakesPriorLicense
        THEN /\ Field(records[k], "license") = AsWritten(PriorLicense)
             /\ ~HasEmptyValue(PriorLicense) => Field(records[k], "license") = PriorLicense
             /\ Field(Field(records[k], "license"), "url") = Field(PriorLicense, "url")
        ELSE /\ Field(records[k], "license") = MappedLicenseShown
             /\ Field(Field(records[k], "license"), "url") = Field(GivenEntry, "page_url")

C17_Witness ==
  /\ Len(records) = 1
  /\ PriorRecord = PriorWithEmpties
  /\ Field(GivenEntry, "licence") = JStr(S_notspecified)
  /\ Field(GivenEntry, "page_url") = JStr(S_page)
  /\ Field(records[1], "license") = JDict(<<KV("spdx_identifier", JStr(S_MIT))>>)

(***************************************************************************)
(* C18: at no nesting depth does the record returned by create_feed_record *)
(* hold a value that is None, "", [], {} or "unknown".                     *)
(***************************************************************************)
RECURSIVE HoldsPlaceholder(_)
HoldsPlaceholder(x) ==
  \/ IsDict(x) /\ \E i \in 1..Len(x.kv) : IsEmptyValue(x.kv[i].v) \/ HoldsPlaceholder(x.kv[i].v)
  \/ IsList(x) /\ \E i \in 1..Len(x.items) :
                    IsEmptyValue(x.items[i]) \/ HoldsPlaceholder(x.items[i])

C18_RecordMinimal ==
  \A k \in 1..Len(records) : records[k] # JNone => ~HoldsPlaceholder(records[k])

VersionsChecked == db_rows # <<>> /\ pc \in {"prune", "done", "crashed"}

\* the hash the directory has for a feed, None when it has none
DirectoryHash(id) == Field(Field(Field(existing_feeds, id), "feed_version"), "sha1")

HashKnownEqual(row) ==
  /\ HasKey(existing_feeds, row.onestop_id)
  /\ DirectoryHash(row.onestop_id) = row.sha1

HashNotKnownEqual(row) == ~HashKnownEqual(row)

RowsOf(list) == [i \in 1..Len(list) |-> [onestop_id |-> list[i].feed_id, sha1 |-> list[i].sha1]]

C20_ClassifiedByHash ==
  VersionsChecked =>
    /\ RowsOf(duplicates) = SelectSeq(db_rows, HashKnownEqual)
    /\ RowsOf(new_versions) = SelectSeq(db_rows, HashNotKnownEqual)
    /\ Len(duplicates) + Len(new_versions) = Len(db_rows)

(***************************************************************************)
(* Vocabulary of the properties of a run of main.                          *)
(***************************************************************************)
\* the positions of events where main did a thing of one kind
Positions(kind) == {i \in 1..Len(events) : events[i].e = kind}

C22_OrderedPipeline ==
  /\ \A i \in Positions("records") : \A j \in Positions("probe") \cup Positions("write") : i < j
  /\ \A i \in Positions("probe") : \A j \in Positions("write") : i < j
  /\ Cardinality(Positions("write")) <= 1
  /\ pc = "done" => Cardinality(Positions("write")) = 1
  /\ \A i, j \in Positions("probe") : i # j => events[i].url # events[j].url

(***************************************************************************)
(* C23: when the request of get_existing_french_feeds fails, the prior     *)
(* mapping of the run is empty, main still reaches the registry write,     *)
(* every record built from the catalog is kept without a probe, and no     *)
(* record is skipped.                                                      *)
(***************************************************************************)
LookupFailed == \E i \in Positions("lookup") : events[i].failed

C23_LookupFailureKeepsAll ==
  LookupFailed =>
    /\ existing_feeds = JDict(<<>>)
    /\ pc \notin {"records", "write"} =>
         /\ calls >= 1
         /\ last.feeds_to_write = new_feeds
         /\ last.skipped_feeds = <<>>
         /\ Positions("probe") = {}
         /\ last.raised = "no" =>
              \A f \in SeqSet(new_feeds) : AsWritten(f) \in SeqSet(FileEntries(dmfr))

C23_Witness ==
  /\ LookupFailed
  /\ pc = "sync"
  /\ Len(new_feeds) = 2
  /\ last.feeds_to_write = new_feeds
  /\ Positions("write") # {}

(***************************************************************************)
(* C24: check_feed_versions reports a feed as an unchanged duplicate only  *)
(* if the hash of its most recently fetched local version equals the       *)
(* directory hash, and never reports a feed both as a duplicate and as new *)
(* or changed in one call.                                                 *)
(***************************************************************************)
\* the row of the most recently fetched version of a feed: the rows are
\* ordered by fetched_at, newest first
NewestRow(id) ==
  db_rows[CHOOSE i \in 1..Len(db_rows) :
            /\ db_rows[i].onestop_id = id
            /\ \A j \in 1..(i - 1) : db_rows[j].onestop_id # id]

FeedsIn(list) == {list[i].feed_id : i \in 1..Len(list)}

C24_DuplicateByNewestVersion ==
  VersionsChecked =>
    /\ \A id \in FeedsIn(duplicates) : NewestRow(id).sha1 = DirectoryHash(id)
    /\ FeedsIn(duplicates) \cap FeedsIn(new_versions) = {}

(***************************************************************************)
(* C25: the prior mapping of main, each value of the shape                 *)
(* {'feed': ..., 'feed_version': ...}, serves both consumers: for an       *)
(* identifier in it create_feed_record finds the prior feed's static URL   *)
(* (and its tags, name, license and feed_versions), and write_dmfr_file    *)
(* finds the prior sha1 and size_bytes.                                    *)
(***************************************************************************)
\* existing_feed.get('urls', {}).get('static_current') in create_feed_record
existing_url(existing_feed) ==
  Get(GetDefault(existing_feed, "urls", JDict(<<>>)), "static_current")

\* feed_version.get('size_bytes') in write_dmfr_file
prior_size_bytes(existing_feed_data) ==
  Get(GetDefault(existing_feed_data, "feed_version", JDict(<<>>)), "size_bytes")

\* feed_version.get('sha1') in write_dmfr_file
prior_sha1(existing_feed_data) ==
  Get(GetDefault(existing_feed_data, "feed_version", JDict(<<>>)), "sha1")

PriorIds == {existing_feeds.kv[i].k : i \in 1..Len(existing_feeds.kv)}

\* the keys of a prior record that create_feed_record reads
MergedKeys == {"urls", "tags", "name", "license", "feed_versions", "feed_state", "languages"}

C25_MappingServesBoth ==
  pc \in {"records", "write", "sync", "check", "prune", "done"} =>
    \A id \in PriorIds :
      LET prior == Get(existing_feeds, id)
          prior_feed == Get(prior, "feed")
      IN /\ existing_url(prior) = Field(Field(prior_feed, "urls"), "static_current")
         /\ \A key \in MergedKeys : Get(prior, key) = Get(prior_feed, key)
         /\ Truthy(prior_sha1(prior)) => prior_size_bytes(prior) # JNone

\* what main shows of it: the records are those of an empty prior mapping,
\* and no record is ever skipped
MainNeverMergesNorSkips ==
  /\ pc \in {"write", "sync", "check", "prune", "done"} =>
       new_feeds = CreateFeedRecords(filter_gtfs_datasets(datasets), JDict(<<>>))
  /\ last.skipped_feeds = <<>>

====
